---------------------------- MODULE Spec2Model ----------------------------
(***************************************************************************)
(* Ledger engine of the Expense Tracker CLI (src/main.py): the expenses,   *)
(* categories, budgets and expense_history tables, the four mutating       *)
(* repository operations, the budget upsert, and the read-side queries.    *)
(*                                                                         *)
(* Amounts are Float columns.  A stored amount is always the double        *)
(* nearest to a decimal literal, so the state keeps that literal as an     *)
(* integer number of thousandths ("milli") and every computation on it     *)
(* (round, SUM, 0.8 * budget, >=) is carried out on IEEE-754 doubles,      *)
(* built below from arbitrary-precision naturals.                          *)
(***************************************************************************)
EXTENDS Integers, Sequences, FiniteSets

(***************************************************************************)
(* Arbitrary-precision naturals: little-endian sequences of limbs.         *)
(***************************************************************************)
Base == 2^15

Pow2(k) == 2^k

Limb(a, i) == IF i <= Len(a) THEN a[i] ELSE 0

RECURSIVE BNorm(_)
BNorm(a) ==
  IF a = <<>> THEN <<>>
  ELSE IF a[Len(a)] = 0 THEN BNorm(SubSeq(a, 1, Len(a) - 1))
  ELSE a

RECURSIVE BFromInt(_)
BFromInt(n) == IF n = 0 THEN <<>> ELSE <<n % Base>> \o BFromInt(n \div Base)

RECURSIVE BToInt(_)
BToInt(a) == IF a = <<>> THEN 0 ELSE a[1] + Base * BToInt(Tail(a))

RECURSIVE BAddC(_, _, _, _)
BAddC(a, b, i, c) ==
  IF i > Len(a) /\ i > Len(b)
  THEN (IF c = 0 THEN <<>> ELSE <<c>>)
  ELSE LET s == Limb(a, i) + Limb(b, i) + c
       IN  <<s % Base>> \o BAddC(a, b, i + 1, s \div Base)

BAdd(a, b) == BAddC(a, b, 1, 0)

\* a - b for a >= b
RECURSIVE BSubC(_, _, _, _)
BSubC(a, b, i, c) ==
  IF i > Len(a) THEN <<>>
  ELSE LET s == Limb(a, i) - Limb(b, i) - c
       IN  IF s < 0 THEN <<s + Base>> \o BSubC(a, b, i + 1, 1)
           ELSE <<s>> \o BSubC(a, b, i + 1, 0)

BSub(a, b) == BNorm(BSubC(a, b, 1, 0))

\* -1, 0, 1 as a < b, a = b, a > b (a, b normalised)
RECURSIVE BCmpAt(_, _, _)
BCmpAt(a, b, i) ==
  IF i = 0 THEN 0
  ELSE IF a[i] < b[i] THEN -1
  ELSE IF a[i] > b[i] THEN 1
  ELSE BCmpAt(a, b, i - 1)

BCmp(a, b) ==
  IF Len(a) < Len(b) THEN -1
  ELSE IF Len(a) > Len(b) THEN 1
  ELSE BCmpAt(a, b, Len(a))

\* a * s for 0 <= s < Base
RECURSIVE BMulSmallC(_, _, _, _)
BMulSmallC(a, s, i, c) ==
  IF i > Len(a)
  THEN (IF c = 0 THEN <<>> ELSE <<c>>)
  ELSE LET p == a[i] * s + c
       IN  <<p % Base>> \o BMulSmallC(a, s, i + 1, p \div Base)

BMulSmall(a, s) == BNorm(BMulSmallC(a, s, 1, 0))

Zeros(n) == [i \in 1..n |-> 0]

RECURSIVE BMulAt(_, _, _)
BMulAt(a, b, j) ==
  IF j > Len(b) THEN <<>>
  ELSE LET row == BMulSmall(a, b[j])
       IN  BAdd(IF row = <<>> THEN <<>> ELSE Zeros(j - 1) \o row,
                BMulAt(a, b, j + 1))

BMul(a, b) == BNorm(BMulAt(a, b, 1))

\* quotient and remainder of a by d, 0 < d <= Base
RECURSIVE BDivSmallAt(_, _, _, _)
BDivSmallAt(a, d, i, r) ==
  IF i = 0 THEN [q |-> <<>>, r |-> r]
  ELSE LET cur  == r * Base + a[i]
           rest == BDivSmallAt(a, d, i - 1, cur % d)
       IN  [q |-> rest.q \o <<cur \div d>>, r |-> rest.r]

BDivSmall(a, d) ==
  LET x == BDivSmallAt(a, d, Len(a), 0) IN [q |-> BNorm(x.q), r |-> x.r]

BShl(a, k) ==
  IF a = <<>> THEN <<>>
  ELSE Zeros(k \div 15) \o BMulSmall(a, Pow2(k % 15))

\* floor(a / 2^k), and whether the k bits dropped were all zero
BShr(a, k) ==
  LET w    == k \div 15
      hi   == IF w >= Len(a) THEN <<>> ELSE SubSeq(a, w + 1, Len(a))
      lo   == IF w >= Len(a) THEN a ELSE SubSeq(a, 1, w)
      d    == BDivSmall(hi, Pow2(k % 15))
  IN  [q |-> d.q, exact |-> d.r = 0 /\ BNorm(lo) = <<>>]

RECURSIVE IntBitLen(_)
IntBitLen(n) == IF n = 0 THEN 0 ELSE 1 + IntBitLen(n \div 2)

BBitLen(a) == IF a = <<>> THEN 0 ELSE 15 * (Len(a) - 1) + IntBitLen(a[Len(a)])

BIsOdd(a) == a # <<>> /\ a[1] % 2 = 1

(***************************************************************************)
(* IEEE-754 binary64 (Python float, SQLite REAL).  A double is             *)
(* (-1)^neg * mag * 2^e with mag of exactly MantBits bits, or zero.        *)
(* Every operation computes the exact result and rounds it to nearest,     *)
(* ties to even.  Exponent range is not modelled: the amounts of the       *)
(* model stay far from overflow and from subnormals.                       *)
(***************************************************************************)
MantBits == 53

DZero == [neg |-> FALSE, mag |-> <<>>, e |-> 0]

\* mag * 2^e, plus something below one unit of mag when sticky, rounded
RoundMag(neg, mag, e, sticky) ==
  LET L == BBitLen(mag)
  IN  IF mag = <<>> THEN DZero
      ELSE IF L <= MantBits
      THEN [neg |-> neg, mag |-> BShl(mag, MantBits - L), e |-> e - (MantBits - L)]
      ELSE LET sh   == L - MantBits
               s1   == BShr(mag, sh - 1)
               half == BIsOdd(s1.q)
               q    == BShr(s1.q, 1).q
               up   == half /\ (~s1.exact \/ sticky \/ BIsOdd(q))
               q2   == IF up THEN BAdd(q, <<1>>) ELSE q
           IN  IF BBitLen(q2) > MantBits
               THEN [neg |-> neg, mag |-> BShr(q2, 1).q, e |-> e + sh + 1]
               ELSE [neg |-> neg, mag |-> q2, e |-> e + sh]

Abs(n) == IF n < 0 THEN -n ELSE n

\* float("c/den") for a decimal literal: the double nearest to c / den
DFromDec(c, den) ==
  IF c = 0 THEN DZero
  ELSE LET d == BDivSmall(BShl(BFromInt(Abs(c)), 80), den)
       IN  RoundMag(c < 0, d.q, -80, d.r # 0)

\* the doubles of the amounts the calls of the model use, computed once
Tabulated == {-5000, 0, 4, 600, 800, 2345, 2400, 3000, 100000, 150000, 200000, 400000}

FTable == [m \in Tabulated |-> DFromDec(m, 1000)]

\* the double a stored amount of m thousandths stands for
F(m) == IF m \in Tabulated THEN FTable[m] ELSE DFromDec(m, 1000)

Min(a, b) == IF a <= b THEN a ELSE b

Max(a, b) == IF a >= b THEN a ELSE b

\* -1, 0, 1 as |x| < |y|, |x| = |y|, |x| > |y|
DCmpMag(x, y) ==
  IF x.mag = <<>> \/ y.mag = <<>>
  THEN (IF x.mag = y.mag THEN 0 ELSE IF x.mag = <<>> THEN -1 ELSE 1)
  ELSE LET e == Min(x.e, y.e)
       IN  BCmp(BShl(x.mag, x.e - e), BShl(y.mag, y.e - e))

DCmp(x, y) ==
  IF x.mag = <<>> /\ y.mag = <<>> THEN 0
  ELSE IF x.mag = <<>> THEN (IF y.neg THEN 1 ELSE -1)
  ELSE IF y.mag = <<>> THEN (IF x.neg THEN -1 ELSE 1)
  ELSE IF x.neg /\ ~y.neg THEN -1
  ELSE IF ~x.neg /\ y.neg THEN 1
  ELSE IF x.neg THEN -DCmpMag(x, y) ELSE DCmpMag(x, y)

DGe(x, y) == DCmp(x, y) >= 0

DAdd(x, y) ==
  IF x.mag = <<>> THEN y
  ELSE IF y.mag = <<>> THEN x
  ELSE LET e  == Min(x.e, y.e)
           mx == BShl(x.mag, x.e - e)
           my == BShl(y.mag, y.e - e)
           c  == BCmp(mx, my)
       IN  IF x.neg = y.neg THEN RoundMag(x.neg, BAdd(mx, my), e, FALSE)
           ELSE IF c = 0 THEN DZero
           ELSE IF c > 0 THEN RoundMag(x.neg, BSub(mx, my), e, FALSE)
           ELSE RoundMag(y.neg, BSub(my, mx), e, FALSE)

DMul(x, y) ==
  IF x.mag = <<>> \/ y.mag = <<>> THEN DZero
  ELSE RoundMag(x.neg # y.neg, BMul(x.mag, y.mag), x.e + y.e, FALSE)

\* round(x, 2): the exact value of x times 100, rounded half to even to an
\* integer h; the result is float(h / 100), returned as thousandths
PyRound2(x) ==
  IF x.mag = <<>> THEN 0
  ELSE LET m100 == BMulSmall(x.mag, 100)
           h == IF x.e >= 0 THEN BShl(m100, x.e)
                ELSE LET s1   == BShr(m100, (-x.e) - 1)
                         half == BIsOdd(s1.q)
                         q    == BShr(s1.q, 1).q
                         up   == half /\ (~s1.exact \/ BIsOdd(q))
                     IN  IF up THEN BAdd(q, <<1>>) ELSE q
       IN  (IF x.neg THEN -10 ELSE 10) * BToInt(h)

(***************************************************************************)
(* Calendar.  A datetime.date is kept as its proleptic Gregorian ordinal   *)
(* (date.toordinal()); the text "YYYY-MM-DD" is kept as <<y, m, d>>.       *)
(***************************************************************************)
IsLeap(y) == (y % 4 = 0) /\ ((y % 100 # 0) \/ (y % 400 = 0))

DaysInMonth(y, m) ==
  IF m = 2 THEN (IF IsLeap(y) THEN 29 ELSE 28)
  ELSE IF m \in {4, 6, 9, 11} THEN 30 ELSE 31

RECURSIVE DaysBeforeMonth(_, _)
DaysBeforeMonth(y, m) ==
  IF m = 1 THEN 0 ELSE DaysBeforeMonth(y, m - 1) + DaysInMonth(y, m - 1)

DaysBeforeYear(y) ==
  (y - 1) * 365 + ((y - 1) \div 4) - ((y - 1) \div 100) + ((y - 1) \div 400)

Ord(y, m, d) == DaysBeforeYear(y) + DaysBeforeMonth(y, m) + d

RECURSIVE YearOf(_, _)
YearOf(n, y) == IF DaysBeforeYear(y + 1) < n THEN YearOf(n, y + 1) ELSE y

RECURSIVE MonthOf(_, _, _)
MonthOf(y, m, rem) ==
  IF rem > DaysInMonth(y, m) THEN MonthOf(y, m + 1, rem - DaysInMonth(y, m))
  ELSE <<y, m, rem>>

IsoOf(n) ==
  LET y == YearOf(n, (n \div 366) + 1)
  IN  MonthOf(y, 1, n - DaysBeforeYear(y))

\* the texts of the days around the run, computed once
IsoTable == [n \in (Ord(2024, 1, 1))..(Ord(2024, 3, 31)) |-> IsoOf(n)]

\* date.isoformat(): the text of an ordinal
isoformat(n) == IF n \in DOMAIN IsoTable THEN IsoTable[n] ELSE IsoOf(n)

\* An optional text argument: None, or a str.  A date text is "ymd" (digits
\* and dashes, whether or not it names a real day) or "junk" (anything else);
\* the empty str is "empty".
NoneArg == [k |-> "none"]

EmptyStr == [k |-> "empty"]

JunkStr == [k |-> "junk"]

DateStr(y, m, d) == [k |-> "ymd", ymd |-> <<y, m, d>>]

\* Python truthiness of an optional str
Truthy(a) == a.k \notin {"none", "empty"}

\* valid_date_str: strptime(date_str, "%Y-%m-%d") does not raise
valid_date_str(ds) ==
  /\ ds.k = "ymd"
  /\ ds.ymd[1] \in 1..9999
  /\ ds.ymd[2] \in 1..12
  /\ ds.ymd[3] \in 1..DaysInMonth(ds.ymd[1], ds.ymd[2])

\* datetime.strptime(date_str, "%Y-%m-%d").date() of a valid text
strptime(ds) == Ord(ds.ymd[1], ds.ymd[2], ds.ymd[3])

\* date_obj.replace(day=1) and date_obj.replace(day=last_day)
MonthStart(n) == LET t == isoformat(n) IN Ord(t[1], t[2], 1)

MonthEnd(n) == LET t == isoformat(n) IN Ord(t[1], t[2], DaysInMonth(t[1], t[2]))

(***************************************************************************)
(* Category names: a str is a sequence of characters.  str.lower/upper     *)
(* know every cased letter; SQLite's lower() folds the ASCII letters only. *)
(***************************************************************************)
AsciiLetters == {<<"f", "F">>, <<"o", "O">>, <<"d", "D">>, <<"r", "R">>,
                 <<"e", "E">>, <<"n", "N">>, <<"t", "T">>}

OtherLetters == {<<"e-acute", "E-acute">>}

Letters == AsciiLetters \cup OtherLetters

Whitespace == {" "}

IsLower(c) == \E p \in Letters : p[1] = c

IsUpper(c) == \E p \in Letters : p[2] = c

IsCased(c) == IsLower(c) \/ IsUpper(c)

LowerIn(pairs, c) ==
  IF \E p \in pairs : p[2] = c THEN (CHOOSE p \in pairs : p[2] = c)[1] ELSE c

UpperIn(pairs, c) ==
  IF \E p \in pairs : p[1] = c THEN (CHOOSE p \in pairs : p[1] = c)[2] ELSE c

PyLower(s) == [i \in 1..Len(s) |-> LowerIn(Letters, s[i])]

SqlLower(s) == [i \in 1..Len(s) |-> LowerIn(AsciiLetters, s[i])]

RECURSIVE LStrip(_)
LStrip(s) == IF s # <<>> /\ s[1] \in Whitespace THEN LStrip(Tail(s)) ELSE s

RECURSIVE RStrip(_)
RStrip(s) ==
  IF s # <<>> /\ s[Len(s)] \in Whitespace
  THEN RStrip(SubSeq(s, 1, Len(s) - 1)) ELSE s

PyStrip(s) == RStrip(LStrip(s))

\* str.title(): a cased letter is upper-cased after an uncased character (or
\* at the start) and lower-cased after a cased one
PyTitle(s) ==
  [i \in 1..Len(s) |->
     IF i > 1 /\ IsCased(s[i - 1]) THEN LowerIn(Letters, s[i])
     ELSE UpperIn(Letters, s[i])]

Str(s) == [k |-> IF s = <<>> THEN "empty" ELSE "str", s |-> s]

(***************************************************************************)
(* The store.  expenses maps the ids of the rows of the expenses table to  *)
(* the rows; categories is the categories table in id order (a category   *)
(* is never deleted, so its id is its index); budgets and history are the  *)
(* budgets and expense_history tables in insertion order.  The created_at  *)
(* and timestamp columns are left out.  Notes are stored as given          *)
(* (ENCRYPT_NOTES is off unless the environment sets it).                  *)
(***************************************************************************)
VARIABLES expenses, categories, budgets, history, today, last

vars == <<expenses, categories, budgets, history, today, last>>

Store == [expenses |-> expenses, categories |-> categories,
          budgets |-> budgets, history |-> history]

MaxOf(S) == CHOOSE x \in S : \A y \in S : y <= x

MinOf(S) == CHOOSE x \in S : \A y \in S : x <= y

\* SQLite rowid of a table without AUTOINCREMENT: one more than the largest
NewId(ex) == IF DOMAIN ex = {} THEN 1 ELSE MaxOf(DOMAIN ex) + 1

Put(ex, id, row) == [i \in (DOMAIN ex) \cup {id} |-> IF i = id THEN row ELSE ex[i]]

Drop(ex, id) == [i \in (DOMAIN ex) \ {id} |-> ex[i]]

Num(m) == [k |-> "num", milli |-> m]

Txt(s) == [k |-> IF s = "" THEN "empty" ELSE "str", s |-> s]

\* Which commit of a call the store refuses: the one in
\* create_category_if_missing, the handler's own, or the one in add_history
Faults == {"none", "category", "main", "audit"}

Call(eid, amount, note, date_str, category_name, currency, soft, fault) ==
  [eid |-> eid, amount |-> amount, note |-> note, date_str |-> date_str,
   category_name |-> category_name, currency |-> currency, soft |-> soft,
   fault |-> fault]

Out(st, result, signal, id) ==
  [st |-> st, result |-> result, signal |-> signal, id |-> id]

\* create_category_if_missing: ok is FALSE when its commit raises (the
\* store refuses it, or the INSERT breaks the unique index on name);
\* committed tells whether session.commit() ran
create_category_if_missing(cats, name, fail) ==
  LET n   == PyTitle(PyStrip(name))
      hit == {i \in 1..Len(cats) : SqlLower(cats[i]) = PyLower(n)}
  IN  IF hit # {}
      THEN [ok |-> TRUE, cats |-> cats, id |-> MinOf(hit), committed |-> FALSE]
      ELSE IF fail \/ (\E i \in 1..Len(cats) : cats[i] = n)
      THEN [ok |-> FALSE, cats |-> cats, id |-> 0, committed |-> FALSE]
      ELSE [ok |-> TRUE, cats |-> Append(cats, n), id |-> Len(cats) + 1,
            committed |-> TRUE]

snapshot(id, e) ==
  [id |-> id, amount |-> e.amount, currency |-> e.currency, note |-> e.note,
   date |-> isoformat(e.date), category_id |-> e.category_id,
   deleted |-> e.deleted]

\* a failure that leaves the record it was writing, without its snapshot
add_history_keeps_partial(hist, id, e, action, fail) ==
  Append(hist, [expense_id |-> id, action |-> action,
                snapshot |-> IF fail THEN <<>> ELSE snapshot(id, e)])

\* add_history: a failure is rolled back and swallowed
add_history(hist, id, e, action, fail) ==
  IF fail THEN hist
  ELSE Append(hist, [expense_id |-> id, action |-> action,
                     snapshot |-> snapshot(id, e)])

\* the check written as amount_v < 0: zero passes
ValidAmount_zero_passes(a) == a.k = "num" /\ DGe(F(a.milli), DZero)

\* float(amount) succeeds and amount_v > 0
ValidAmount(a) == a.k = "num" /\ ~DGe(DZero, F(a.milli))

\* SUM(amount) over the rows ids of ex, in rowid order; 0.0 for no row
RECURSIVE SumAmounts(_, _)
SumAmounts(ex, ids) ==
  IF ids = {} THEN DZero
  ELSE LET i == MaxOf(ids)
       IN  DAdd(SumAmounts(ex, ids \ {i}), F(ex[i].amount))

\* the rows of the month whether deleted or not
MonthRows_counts_deleted(ex, cid, date_obj) ==
  {i \in DOMAIN ex : /\ ex[i].category_id = cid
                     /\ ex[i].date >= MonthStart(date_obj)
                     /\ ex[i].date <= MonthEnd(date_obj)}

\* the rows the budget alert sums: the category's live rows dated in the
\* month of date_obj
MonthRows(ex, cid, date_obj) ==
  {i \in DOMAIN ex : /\ ex[i].category_id = cid
                     /\ ex[i].deleted = FALSE
                     /\ ex[i].date >= MonthStart(date_obj)
                     /\ ex[i].date <= MonthEnd(date_obj)}

\* the alert with its two tests in the other order
Threshold_approaching_first(total, budget_amount) ==
  IF DGe(total, DMul(F(800), F(budget_amount))) THEN "approaching"
  ELSE IF DGe(total, F(budget_amount)) THEN "exceeded"
  ELSE "ok"

\* the if / elif of the budget alert
Threshold(total, budget_amount) ==
  IF DGe(total, F(budget_amount)) THEN "exceeded"
  ELSE IF DGe(total, DMul(F(800), F(budget_amount))) THEN "approaching"
  ELSE "ok"

\* the budget alert of add_expense_db: "none" when it is skipped
budget_alert(ex, buds, cid, date_obj) ==
  LET mine == {j \in 1..Len(buds) : buds[j].category_id = cid}
  IN  IF cid = 0 \/ mine = {} THEN "none"
      ELSE Threshold(SumAmounts(ex, MonthRows(ex, cid, date_obj)),
                     buds[MaxOf(mine)].amount)

NoCategory == [ok |-> TRUE, cats |-> <<>>, id |-> 0, committed |-> FALSE]

add_expense_db(st, c, td) ==
  IF ~ValidAmount(c.amount) THEN Out(st, "rejected", "none", 0)
  ELSE
    LET date_obj == IF Truthy(c.date_str) /\ valid_date_str(c.date_str)
                    THEN strptime(c.date_str) ELSE td
        cat == IF Truthy(c.category_name)
               THEN create_category_if_missing(st.categories, c.category_name.s,
                                               c.fault = "category")
               ELSE [NoCategory EXCEPT !.cats = st.categories]
        st1 == [st EXCEPT !.categories = cat.cats]
        eid == NewId(st.expenses)
        expense == [amount      |-> PyRound2(F(c.amount.milli)),
                    currency    |-> IF Truthy(c.currency) THEN c.currency.s ELSE "INR",
                    note        |-> IF Truthy(c.note) THEN c.note.s ELSE "",
                    date        |-> date_obj,
                    category_id |-> cat.id,
                    deleted     |-> FALSE]
        ex2 == Put(st.expenses, eid, expense)
    IN  IF ~cat.ok THEN Out(st, "dberror", "none", 0)
        ELSE IF c.fault = "main" THEN Out(st1, "dberror", "none", 0)
        ELSE Out([st1 EXCEPT !.expenses = ex2,
                             !.history = add_history(st.history, eid, expense,
                                                     "create", c.fault = "audit")],
                 "ok", budget_alert(ex2, st.budgets, cat.id, date_obj), eid)

\* a delete whose hard branch also logs a record
delete_found_hard_logs(st, c) ==
  IF c.fault = "main" THEN Out(st, "dberror", "none", 0)
  ELSE LET e == [st.expenses[c.eid] EXCEPT !.deleted = TRUE]
           h == add_history(st.history, c.eid, e, "delete", c.fault = "audit")
       IN  IF c.soft
           THEN Out([st EXCEPT !.expenses = Put(st.expenses, c.eid, e),
                               !.history = h], "ok", "none", c.eid)
           ELSE Out([st EXCEPT !.expenses = Drop(st.expenses, c.eid),
                               !.history = h], "ok", "none", c.eid)

\* a delete whose hard branch takes the row's records with it
delete_found_purges_history(st, c) ==
  IF c.fault = "main" THEN Out(st, "dberror", "none", 0)
  ELSE IF c.soft
  THEN LET e == [st.expenses[c.eid] EXCEPT !.deleted = TRUE]
       IN  Out([st EXCEPT !.expenses = Put(st.expenses, c.eid, e),
                          !.history = add_history(st.history, c.eid, e, "delete",
                                                  c.fault = "audit")],
               "ok", "none", c.eid)
  ELSE Out([st EXCEPT !.expenses = Drop(st.expenses, c.eid),
                      !.history = SelectSeq(st.history,
                                            LAMBDA r : r.expense_id # c.eid)],
           "ok", "none", c.eid)

\* a soft delete that flips the flag instead of setting it
delete_found_toggles(st, c) ==
  IF c.fault = "main" THEN Out(st, "dberror", "none", 0)
  ELSE IF c.soft
  THEN LET e == [st.expenses[c.eid] EXCEPT !.deleted = ~st.expenses[c.eid].deleted]
       IN  Out([st EXCEPT !.expenses = Put(st.expenses, c.eid, e),
                          !.history = add_history(st.history, c.eid, e, "delete",
                                                  c.fault = "audit")],
               "ok", "none", c.eid)
  ELSE Out([st EXCEPT !.expenses = Drop(st.expenses, c.eid)], "ok", "none", c.eid)

\* delete_expense_db once session.get has found the row
delete_found(st, c) ==
  IF c.fault = "main" THEN Out(st, "dberror", "none", 0)
  ELSE IF c.soft
  THEN LET e == [st.expenses[c.eid] EXCEPT !.deleted = TRUE]
       IN  Out([st EXCEPT !.expenses = Put(st.expenses, c.eid, e),
                          !.history = add_history(st.history, c.eid, e, "delete",
                                                  c.fault = "audit")],
               "ok", "none", c.eid)
  ELSE Out([st EXCEPT !.expenses = Drop(st.expenses, c.eid)], "ok", "none", c.eid)

delete_expense_db(st, c) ==
  IF c.eid \notin DOMAIN st.expenses THEN Out(st, "notfound", "none", 0)
  ELSE delete_found(st, c)

\* update_expense_db once session.get has found the row; float(amount) of
\* a text that is no number raises ValueError out of the handler
update_found(st, c) ==
  IF c.amount.k = "junk" THEN Out(st, "raised", "none", 0)
  ELSE
    LET e0 == st.expenses[c.eid]
        e1 == IF c.amount.k = "num" THEN [e0 EXCEPT !.amount = c.amount.milli] ELSE e0
        e2 == IF c.note.k # "none" THEN [e1 EXCEPT !.note = c.note.s] ELSE e1
        date_ok == Truthy(c.date_str) /\ valid_date_str(c.date_str)
        e3 == IF date_ok THEN [e2 EXCEPT !.date = strptime(c.date_str)] ELSE e2
        use_cat == Truthy(c.category_name)
        cat == IF use_cat
               THEN create_category_if_missing(st.categories, c.category_name.s,
                                               c.fault = "category")
               ELSE [NoCategory EXCEPT !.cats = st.categories]
        \* the commit in create_category_if_missing commits the whole
        \* session: the new category and the fields assigned so far
        st1 == IF cat.committed
               THEN [st EXCEPT !.categories = cat.cats,
                               !.expenses = Put(st.expenses, c.eid, e3)]
               ELSE st
        e4 == IF use_cat THEN [e3 EXCEPT !.category_id = cat.id] ELSE e3
        e5 == IF Truthy(c.currency) THEN [e4 EXCEPT !.currency = c.currency.s] ELSE e4
        changed == \/ c.amount.k = "num"
                   \/ c.note.k # "none"
                   \/ date_ok
                   \/ use_cat
                   \/ Truthy(c.currency)
    IN  IF ~cat.ok THEN Out(st, "dberror", "none", 0)
        ELSE IF ~changed THEN Out(st, "noop", "none", c.eid)
        ELSE IF c.fault = "main" THEN Out(st1, "dberror", "none", 0)
        ELSE Out([st1 EXCEPT !.expenses = Put(st.expenses, c.eid, e5),
                             !.history = add_history(st.history, c.eid, e5,
                                                     "update", c.fault = "audit")],
                 "ok", "none", c.eid)

\* an update that resolves its category before it looks the row up
update_expense_db_category_first(st, c) ==
  LET cat == IF Truthy(c.category_name)
             THEN create_category_if_missing(st.categories, c.category_name.s,
                                             c.fault = "category")
             ELSE [NoCategory EXCEPT !.cats = st.categories]
  IN  IF c.eid \notin DOMAIN st.expenses
      THEN Out([st EXCEPT !.categories = cat.cats], "notfound", "none", 0)
      ELSE update_found(st, c)

\* an update without the if changed: it commits and logs whatever it did
update_expense_db_logs_always(st, c) ==
  IF c.eid \notin DOMAIN st.expenses THEN Out(st, "notfound", "none", 0)
  ELSE LET o == update_found(st, c)
       IN  IF o.result # "noop" THEN o
           ELSE Out([st EXCEPT !.history =
                       add_history(st.history, c.eid, st.expenses[c.eid],
                                   "update", c.fault = "audit")],
                    "ok", "none", c.eid)

update_expense_db(st, c) ==
  IF c.eid \notin DOMAIN st.expenses THEN Out(st, "notfound", "none", 0)
  ELSE update_found(st, c)

\* prompt_budget: the upsert of a category's budget
set_budget(st, c) ==
  IF c.amount.k # "num" THEN Out(st, "rejected", "none", 0)
  ELSE
    LET cat  == create_category_if_missing(st.categories,
                                           PyTitle(PyStrip(c.category_name.s)),
                                           c.fault = "category")
        st1  == [st EXCEPT !.categories = cat.cats]
        mine == {j \in 1..Len(st.budgets) : st.budgets[j].category_id = cat.id}
        b    == [category_id |-> cat.id, amount |-> c.amount.milli,
                 currency |-> c.currency.s]
    IN  IF ~cat.ok THEN Out(st, "dberror", "none", 0)
        ELSE IF c.fault = "main" THEN Out(st1, "dberror", "none", 0)
        ELSE IF mine # {}
        THEN Out([st1 EXCEPT !.budgets[MinOf(mine)] = b], "ok", "none", cat.id)
        ELSE Out([st1 EXCEPT !.budgets = Append(st.budgets, b)], "ok", "none", cat.id)

\* create_category_if_missing called on its own, as test.py does: the
\* IntegrityError of its commit is raised to the caller
get_or_create(st, c) ==
  LET cat == create_category_if_missing(st.categories, c.category_name.s,
                                        c.fault = "category")
  IN  IF cat.ok THEN Out([st EXCEPT !.categories = cat.cats], "ok", "none", cat.id)
      ELSE Out(st, "raised", "none", 0)

(***************************************************************************)
(* The read side.  A query without a total ORDER BY may return its rows    *)
(* in any order its ORDER BY allows, so view_expenses_db is the set of     *)
(* the results it can return.                                              *)
(***************************************************************************)
Perms(S) ==
  {p \in [1..Cardinality(S) -> S] : \A i, j \in DOMAIN p : p[i] = p[j] => i = j}

\* ORDER BY sort_by [DESC] allows row a before row b
MayPrecede(ex, sort_by, desc, a, b) ==
  LET c == IF sort_by = "date" THEN (IF ex[a].date < ex[b].date THEN -1
                                     ELSE IF ex[a].date > ex[b].date THEN 1 ELSE 0)
           ELSE IF sort_by = "amount" THEN DCmp(F(ex[a].amount), F(ex[b].amount))
           ELSE IF sort_by = "id" THEN (IF a < b THEN -1 ELSE IF a > b THEN 1 ELSE 0)
           ELSE 0
  IN  IF desc THEN c >= 0 ELSE c <= 0

Orderings(ex, ids, sort_by, desc) ==
  {p \in Perms(ids) :
     \A i, j \in DOMAIN p : i < j => MayPrecede(ex, sort_by, desc, p[i], p[j])}

\* OFFSET off LIMIT lim of SQLite: a negative offset is 0, a negative limit
\* is no limit
SqlSlice(seq, off, lim) ==
  LET o == IF off < 0 THEN 0 ELSE off
      l == IF lim < 0 THEN Len(seq) ELSE lim
  IN  SubSeq(seq, o + 1, Min(Len(seq), o + l))

\* math.ceil(total / per_page) if per_page else 1
Pages(total, per_page) ==
  IF per_page = 0 THEN 1
  ELSE IF per_page > 0 THEN -((-total) \div per_page)
  ELSE -(total \div (-per_page))

CategoryName(cats, cid) ==
  IF cid = 0 THEN NoneArg
  ELSE IF cid \in 1..Len(cats) THEN [k |-> "str", s |-> cats[cid]]
  ELSE [k |-> "str", s |-> <<>>]

ViewRow(ex, cats, id) ==
  [id |-> id, amount |-> ex[id].amount, currency |-> ex[id].currency,
   category |-> CategoryName(cats, ex[id].category_id),
   date |-> isoformat(ex[id].date), note |-> ex[id].note,
   deleted |-> ex[id].deleted]

ViewIds(ex, include_deleted) ==
  {i \in DOMAIN ex : include_deleted \/ ex[i].deleted = FALSE}

view_expenses_db(ex, cats, page, per_page, sort_by, desc, include_deleted) ==
  LET ids   == ViewIds(ex, include_deleted)
      total == Cardinality(ids)
  IN  {[total |-> total, pages |-> Pages(total, per_page), page |-> page,
        per_page |-> per_page,
        items |-> LET it == SqlSlice(p, (page - 1) * per_page, per_page)
                  IN  [i \in DOMAIN it |-> ViewRow(ex, cats, it[i])]] :
       p \in Orderings(ex, ids, sort_by, desc)}

\* note ILIKE '%keyword%', for the notes and the keywords of the model: the
\* pairs of a note and a keyword that occurs in it, ignoring case
Ilike == {<<"tea", "tea">>, <<"tea", "EA">>}

\* the arguments of search_expenses that filter
Filter(keyword, amount_min, amount_max, date_from, date_to, category) ==
  [keyword |-> keyword, amount_min |-> amount_min, amount_max |-> amount_max,
   date_from |-> date_from, date_to |-> date_to, category |-> category]

\* the categories the lookup of search_expenses finds for a name: the name
\* is neither stripped nor put in title case
SearchCategory(cats, name) ==
  {i \in 1..Len(cats) : SqlLower(cats[i]) = PyLower(name)}

\* the category argument names no category: search_expenses returns early
UnknownCategory(cats, f) ==
  Truthy(f.category) /\ SearchCategory(cats, f.category.s) = {}

\* the rows of the query of search_expenses
SearchIds(ex, cats, f) ==
  IF UnknownCategory(cats, f) THEN {}
  ELSE {i \in DOMAIN ex :
          /\ ex[i].deleted = FALSE
          /\ Truthy(f.keyword) => <<ex[i].note, f.keyword.s>> \in Ilike
          /\ f.amount_min.k = "num" => DGe(F(ex[i].amount), F(f.amount_min.milli))
          /\ f.amount_max.k = "num" => DGe(F(f.amount_max.milli), F(ex[i].amount))
          /\ (Truthy(f.date_from) /\ valid_date_str(f.date_from))
               => ex[i].date >= strptime(f.date_from)
          /\ (Truthy(f.date_to) /\ valid_date_str(f.date_to))
               => ex[i].date <= strptime(f.date_to)
          /\ Truthy(f.category)
               => ex[i].category_id = MinOf(SearchCategory(cats, f.category.s))}

\* the query has no ORDER BY: SQLite may return its rows in any order, the
\* same for every page of one ledger state
SearchOrderings(ex, cats, f) == Perms(SearchIds(ex, cats, f))

SearchRow(ex, cats, id) ==
  [id |-> id, amount |-> ex[id].amount, currency |-> ex[id].currency,
   category |-> IF ex[id].category_id \in 1..Len(cats)
                THEN cats[ex[id].category_id] ELSE <<>>,
   date |-> isoformat(ex[id].date), note |-> ex[id].note]

\* search_expenses, when the query returns its rows in the order p
search_expenses(ex, cats, f, page, per_page, p) ==
  IF UnknownCategory(cats, f)
  THEN [total |-> 0, pages |-> 0, page |-> 1, per_page |-> per_page, items |-> <<>>]
  ELSE LET it == SqlSlice(p, (page - 1) * per_page, per_page)
       IN  [total |-> Len(p), pages |-> Pages(Len(p), per_page), page |-> page,
            per_page |-> per_page,
            items |-> [i \in DOMAIN it |-> SearchRow(ex, cats, it[i])]]

\* the query without its deleted filter
TrendIds_counts_deleted(ex, d) == {i \in DOMAIN ex : ex[i].date = d}

\* the rows of spending_trend's query that are dated d
TrendIds(ex, d) == {i \in DOMAIN ex : ex[i].deleted = FALSE /\ ex[i].date = d}

\* the rows of the query as they come, without the filling of the days
\* that have none
RECURSIVE spending_trend_sparse(_, _, _)
spending_trend_sparse(ex, period_days, td) ==
  IF period_days <= 0 THEN <<>>
  ELSE LET d == td - (period_days - 1)
           rest == spending_trend_sparse(ex, period_days - 1, td)
       IN  IF TrendIds(ex, d) = {} THEN rest
           ELSE <<(<<isoformat(d), SumAmounts(ex, TrendIds(ex, d))>>)>> \o rest

spending_trend(ex, period_days, td) ==
  LET start == td - (period_days - 1)
      n     == IF period_days < 0 THEN 0 ELSE period_days
  IN  [i \in 1..n |->
         LET d == start + (i - 1)
         IN  <<isoformat(d),
               IF d >= start /\ d <= td /\ TrendIds(ex, d) # {}
               THEN SumAmounts(ex, TrendIds(ex, d)) ELSE DZero>>]

\* the rows of monthly_category_summary's query that join category cid
MonthlyIds(ex, cid, td) ==
  {i \in DOMAIN ex : /\ ex[i].category_id = cid
                     /\ ex[i].deleted = FALSE
                     /\ ex[i].date >= MonthStart(td)
                     /\ ex[i].date <= MonthEnd(td)}

\* monthly_category_summary: the (name, total) of every category with a
\* row in the query; the ORDER BY name of the printed table is left out
monthly_category_summary(ex, cats, td) ==
  {<<cats[cid], SumAmounts(ex, MonthlyIds(ex, cid, td))>> :
     cid \in {j \in 1..Len(cats) : MonthlyIds(ex, j, td) # {}}}

(***************************************************************************)
(* The calls the model makes.                                              *)
(***************************************************************************)
MaxRows == 2

MaxOps == 3

MaxTicks == 1

\* the day the run starts on: the last day of a leap February
FirstDay == Ord(2024, 2, 29)

food == Str(<<"f", "o", "o", "d">>)

FOOD_padded == Str(<<" ", "F", "O", "O", "D", " ">>)

rent == Str(<<"r", "e", "n", "t">>)

Junk == [k |-> "junk"]

\* Spec: every operation, with every commit that can fail
CreateCalls ==
  {Call(0, Num(2400), Txt(""), NoneArg, food, NoneArg, FALSE, f) : f \in Faults}
  \cup
  {Call(0, a, Txt("tea"), JunkStr, rent, Txt("USD"), FALSE, "none") :
     a \in {Num(0), Num(-5000), Num(4), Junk}}

UpdateCalls ==
  {Call(id, NoneArg, NoneArg, d, NoneArg, NoneArg, FALSE, "none") :
     id \in 1..(MaxRows + 1), d \in {NoneArg, JunkStr, DateStr(2023, 2, 29)}}
  \cup
  {Call(id, Num(0), NoneArg, NoneArg, rent, NoneArg, FALSE, f) :
     id \in 1..(MaxRows + 1), f \in Faults}
  \cup
  {Call(id, Num(2345), NoneArg, NoneArg, NoneArg, NoneArg, FALSE, "none") :
     id \in 1..(MaxRows + 1)}

DeleteCalls ==
  {Call(id, NoneArg, NoneArg, NoneArg, NoneArg, NoneArg, TRUE, f) :
     id \in 1..(MaxRows + 1), f \in {"none", "main", "audit"}}
  \cup
  {Call(id, NoneArg, NoneArg, NoneArg, NoneArg, NoneArg, FALSE, f) :
     id \in 1..(MaxRows + 1), f \in {"none", "main"}}

BudgetCalls ==
  {Call(0, Num(3000), NoneArg, NoneArg, FOOD_padded, Txt("INR"), FALSE, f) :
     f \in {"none", "category", "main"}}
  \cup
  {Call(0, Junk, NoneArg, NoneArg, food, Txt("INR"), FALSE, "none")}

\* SpecViews: rows of several days, months and categories, deleted or not
ViewCreateCalls ==
  {Call(0, Num(2400), Txt(""), NoneArg, food, NoneArg, FALSE, "none"),
   Call(0, Num(600), Txt("tea"), NoneArg, food, NoneArg, FALSE, "none"),
   Call(0, Num(2400), Txt(""), DateStr(2024, 2, 28), rent, NoneArg, FALSE, "none"),
   Call(0, Num(600), Txt(""), DateStr(2024, 1, 31), NoneArg, NoneArg, FALSE, "none")}

ViewDeleteCalls ==
  {Call(id, NoneArg, NoneArg, NoneArg, NoneArg, NoneArg, soft, "none") :
     id \in 1..MaxRows, soft \in BOOLEAN}

\* the arguments the read side is called with
MaxDays == 3

PageArgs == {1, 2}

PerPageArgs == {0, 1, 2}

SortKeys == {"date", "amount", "id", "note"}

FOOD == Str(<<"F", "O", "O", "D">>)

SearchFilters ==
  {Filter(NoneArg, NoneArg, NoneArg, NoneArg, NoneArg, NoneArg),
   Filter(Txt("EA"), NoneArg, NoneArg, EmptyStr, JunkStr, NoneArg),
   Filter(NoneArg, Num(600), Num(2400), NoneArg, NoneArg, FOOD),
   Filter(NoneArg, Num(2400), NoneArg, DateStr(2024, 2, 28), NoneArg, NoneArg),
   Filter(Txt(""), NoneArg, Num(600), NoneArg, DateStr(2024, 2, 29), NoneArg),
   Filter(NoneArg, NoneArg, NoneArg, NoneArg, NoneArg, FOOD_padded)}

(***************************************************************************)
(* Actions: one call of one operation, run to completion.                  *)
(***************************************************************************)
NoCall == Call(0, NoneArg, NoneArg, NoneArg, NoneArg, NoneArg, FALSE, "none")

Apply(op, c, o) ==
  /\ expenses' = o.st.expenses
  /\ categories' = o.st.categories
  /\ budgets' = o.st.budgets
  /\ history' = o.st.history
  /\ last' = [op |-> op, call |-> c, result |-> o.result, signal |-> o.signal,
              id |-> o.id, n |-> last.n + 1]
  /\ UNCHANGED today

\* the model makes at most MaxOps calls
Room == last.n < MaxOps

CreateTransaction(calls) ==
  \E c \in calls :
    /\ Room
    /\ Cardinality(DOMAIN expenses) < MaxRows
    /\ Apply("create", c, add_expense_db(Store, c, today))

UpdateTransaction(calls) ==
  \E c \in calls :
    /\ Room
    /\ Apply("update", c, update_expense_db(Store, c))

DeleteTransaction(calls) ==
  \E c \in calls :
    /\ Room
    /\ Apply(IF c.soft THEN "soft_delete" ELSE "hard_delete", c,
             delete_expense_db(Store, c))

SetBudget(calls) ==
  \E c \in calls :
    /\ Room
    /\ Apply("set_budget", c, set_budget(Store, c))

\* midnight passes: datetime.date.today() moves on
Tick ==
  /\ today < FirstDay + MaxTicks
  /\ today' = today + 1
  /\ last' = [op |-> "tick", call |-> NoCall, result |-> "ok", signal |-> "none",
              id |-> 0, n |-> last.n]
  /\ UNCHANGED <<expenses, categories, budgets, history>>

Init ==
  /\ expenses = <<>>
  /\ categories = <<>>
  /\ budgets = <<>>
  /\ history = <<>>
  /\ today = FirstDay
  /\ last = [op |-> "init", call |-> NoCall, result |-> "ok", signal |-> "none",
             id |-> 0, n |-> 0]

Next ==
  \/ CreateTransaction(CreateCalls)
  \/ UpdateTransaction(UpdateCalls)
  \/ DeleteTransaction(DeleteCalls)
  \/ SetBudget(BudgetCalls)

Spec == Init /\ [][Next]_vars

NextViews ==
  \/ CreateTransaction(ViewCreateCalls)
  \/ DeleteTransaction(ViewDeleteCalls)
  \/ Tick

SpecViews == Init /\ [][NextViews]_vars

\* SpecFood: a Food category with a budget of 400, and creations of 100,
\* 150 or 200 in Food dated today
MaxFood == 4

FoodCalls ==
  {Call(0, Num(a), Txt(""), NoneArg, food, NoneArg, FALSE, "none") :
     a \in {100000, 150000, 200000}}

InitFood ==
  /\ expenses = <<>>
  /\ categories = <<PyTitle(PyStrip(food.s))>>
  /\ budgets = <<[category_id |-> 1, amount |-> 400000, currency |-> "INR"]>>
  /\ history = <<>>
  /\ today = FirstDay
  /\ last = [op |-> "init", call |-> NoCall, result |-> "ok", signal |-> "none",
             id |-> 0, n |-> 0]

CreateFood ==
  \E c \in FoodCalls :
    /\ last.n < MaxFood
    /\ Apply("create", c, add_expense_db(Store, c, today))

SpecFood == InitFood /\ [][CreateFood]_vars

\* SpecBudget: a Food category with a budget of 3, creations in and out of
\* Food and of the month, soft deletes, and the budget set anew
InitBudget ==
  /\ expenses = <<>>
  /\ categories = <<PyTitle(PyStrip(food.s))>>
  /\ budgets = <<[category_id |-> 1, amount |-> 3000, currency |-> "INR"]>>
  /\ history = <<>>
  /\ today = FirstDay
  /\ last = [op |-> "init", call |-> NoCall, result |-> "ok", signal |-> "none",
             id |-> 0, n |-> 0]

BudgetCreateCalls ==
  {Call(0, Num(2400), Txt(""), NoneArg, food, NoneArg, FALSE, "none"),
   Call(0, Num(600), Txt(""), NoneArg, food, NoneArg, FALSE, "none"),
   Call(0, Num(2400), Txt(""), DateStr(2024, 1, 31), food, NoneArg, FALSE, "none"),
   Call(0, Num(2400), Txt(""), NoneArg, rent, NoneArg, FALSE, "none")}

BudgetDeleteCalls ==
  {Call(id, NoneArg, NoneArg, NoneArg, NoneArg, NoneArg, TRUE, "none") :
     id \in 1..MaxRows}

BudgetSetCalls ==
  {Call(0, Num(a), NoneArg, NoneArg, food, Txt("INR"), FALSE, "none") :
     a \in {600, -5000}}

NextBudget ==
  \/ CreateTransaction(BudgetCreateCalls)
  \/ DeleteTransaction(BudgetDeleteCalls)
  \/ SetBudget(BudgetSetCalls)

SpecBudget == InitBudget /\ [][NextBudget]_vars

\* SpecNames: calls that name a category, in several spellings
ete == Str(<<"e-acute", "t", "e">>)

Names == {food, FOOD_padded, ete}

NameCreateCalls ==
  {Call(0, Num(2400), Txt(""), NoneArg, n, NoneArg, FALSE, "none") : n \in Names}

NameUpdateCalls ==
  {Call(id, NoneArg, NoneArg, NoneArg, n, NoneArg, FALSE, "none") :
     id \in 1..MaxRows, n \in Names}

NameBudgetCalls ==
  {Call(0, Num(3000), NoneArg, NoneArg, n, Txt("INR"), FALSE, "none") : n \in Names}

NameCalls ==
  {Call(0, NoneArg, NoneArg, NoneArg, n, NoneArg, FALSE, "none") : n \in Names}

GetOrCreate(calls) ==
  \E c \in calls :
    /\ Room
    /\ Apply("get_or_create", c, get_or_create(Store, c))

NextNames ==
  \/ CreateTransaction(NameCreateCalls)
  \/ UpdateTransaction(NameUpdateCalls)
  \/ SetBudget(NameBudgetCalls)
  \/ GetOrCreate(NameCalls)

SpecNames == Init /\ [][NextNames]_vars

(***************************************************************************)
(* Properties.  A step of a call is a step that increases last.n; the      *)
(* primed last then names the call, and the unprimed variables are the     *)
(* store the call found.                                                   *)
(***************************************************************************)
CallStep == last'.n = last.n + 1

StoreUnchanged == UNCHANGED <<expenses, categories, budgets, history>>

\* the category a name resolves to does not exist yet
NewName(cats, a) ==
  /\ Truthy(a)
  /\ \A i \in 1..Len(cats) : SqlLower(cats[i]) # PyLower(PyTitle(PyStrip(a.s)))

\* C1: every transaction row in the ledger has amount > 0, in every
\* reachable state
C1_AmountPositive ==
  \A i \in DOMAIN expenses : DCmp(F(expenses[i].amount), DZero) > 0

\* C2: a create_transaction with an amount <= 0 is rejected and adds no
\* transaction row, no category row and no audit record, whatever its other
\* arguments
C2_NonPositiveCreateRejected ==
  [][(/\ CallStep
      /\ last'.op = "create"
      /\ last'.call.amount.k = "num"
      /\ last'.call.amount.milli <= 0)
     => (last'.result = "rejected" /\ StoreUnchanged)]_vars

\* a create with an amount <= 0 and a category name that did not exist was
\* made, and was rejected
C2_Witness ==
  /\ last.op = "create"
  /\ last.call.amount.k = "num"
  /\ last.call.amount.milli <= 0
  /\ NewName(categories, last.call.category_name)
  /\ last.result = "rejected"

\* C3: an operation whose persistence step fails leaves the store as it
\* found it
C3_FailedCallLeavesStore ==
  [][(CallStep /\ last'.result = "dberror") => StoreUnchanged]_vars

\* the ledger with its deleted rows removed
LiveLedger == [i \in {j \in DOMAIN expenses : ~expenses[j].deleted} |-> expenses[i]]

\* C4: trend, monthly_category_totals and view_transactions with
\* include_deleted = false return what they return over the ledger with all
\* deleted rows removed
C4_DeletedRowsContributeNothing ==
  /\ \A n \in 0..MaxDays :
       spending_trend(expenses, n, today) = spending_trend(LiveLedger, n, today)
  /\ monthly_category_summary(expenses, categories, today)
       = monthly_category_summary(LiveLedger, categories, today)
  /\ \A page \in PageArgs, per_page \in PerPageArgs, sort_by \in SortKeys,
        desc \in BOOLEAN :
       view_expenses_db(expenses, categories, page, per_page, sort_by, desc, FALSE)
         = view_expenses_db(LiveLedger, categories, page, per_page, sort_by, desc, FALSE)

\* a deleted row dated today in a category lies beside a live one, and
\* view_transactions with include_deleted = true does show it
C4_Witness ==
  /\ \E i, j \in DOMAIN expenses :
       /\ expenses[i].deleted /\ expenses[i].date = today
       /\ expenses[i].category_id # 0
       /\ ~expenses[j].deleted /\ expenses[j].date = today
       /\ expenses[j].category_id = expenses[i].category_id
  /\ \E r \in view_expenses_db(expenses, categories, 1, MaxRows, "id", FALSE, TRUE) :
       \E k \in DOMAIN r.items : r.items[k].deleted

\* the action add_history is called with by an operation
ActionOf(op) ==
  IF op = "create" THEN "create" ELSE IF op = "update" THEN "update" ELSE "delete"

\* C5: unless the append itself fails, a successful create, update that
\* applies a field or soft delete appends exactly one audit record, with the
\* id of the transaction and the action of the operation; every other call
\* (a hard delete, an update without a field, a rejected or failed call)
\* appends none
C5_OneAuditRecordPerMutation ==
  [][(CallStep /\ last'.call.fault # "audit")
     => IF last'.result = "ok" /\ last'.op \in {"create", "update", "soft_delete"}
        THEN /\ Len(history') = Len(history) + 1
             /\ SubSeq(history', 1, Len(history)) = history
             /\ history'[Len(history')].expense_id = last'.id
             /\ history'[Len(history')].action = ActionOf(last'.op)
        ELSE history' = history]_vars

\* one transaction was created, updated and soft-deleted, and the log holds
\* the three records of it
C5_Witness ==
  /\ last.op = "soft_delete" /\ last.result = "ok"
  /\ last.call.fault # "audit"
  /\ Len(history) = 3
  /\ \A k \in 1..3 : history[k].expense_id = last.id
  /\ [k \in 1..3 |-> history[k].action] = <<"create", "update", "delete">>

\* C6: the audit log only grows at its end: every record stays where it is,
\* as it is, under every operation
C6_AuditLogAppendOnly ==
  [][/\ Len(history') >= Len(history)
     /\ SubSeq(history', 1, Len(history)) = history]_vars

\* a transaction with records in the log was hard-deleted, and its records
\* are still there
C6_Witness ==
  /\ last.op = "hard_delete" /\ last.result = "ok"
  /\ last.id \notin DOMAIN expenses
  /\ \E k \in 1..Len(history) : history[k].expense_id = last.id

\* the call gets as far as add_history: a create with a valid amount, an
\* update of a row of the ledger that applies a field, a soft delete of a
\* row of the ledger
ReachesAudit(op, c) ==
  \/ op = "create" /\ ValidAmount(c.amount)
  \/ /\ op = "update" /\ c.eid \in DOMAIN expenses /\ c.amount.k # "junk"
     /\ \/ c.amount.k = "num" \/ c.note.k # "none" \/ Truthy(c.category_name)
        \/ Truthy(c.currency) \/ (Truthy(c.date_str) /\ valid_date_str(c.date_str))
  \/ op = "soft_delete" /\ c.eid \in DOMAIN expenses

\* C7: when the append of the audit record fails in a create, update or
\* soft delete, the call still reports success, the log is as it was, and
\* the mutation is in the ledger: the created row exists, the updated row
\* holds the amount and the category of the call, the deleted row is flagged
C7_AuditFailureIsolated ==
  [][(CallStep /\ last'.call.fault = "audit" /\ ReachesAudit(last'.op, last'.call))
     => LET c == last'.call
        IN  /\ last'.result = "ok"
            /\ history' = history
            /\ budgets' = budgets
            /\ last'.op = "create" =>
                 /\ last'.id \notin DOMAIN expenses
                 /\ DOMAIN expenses' = DOMAIN expenses \cup {last'.id}
                 /\ expenses'[last'.id].amount = PyRound2(F(c.amount.milli))
            /\ last'.op = "update" =>
                 /\ DOMAIN expenses' = DOMAIN expenses
                 /\ c.amount.k = "num" => expenses'[c.eid].amount = c.amount.milli
                 /\ Truthy(c.category_name) =>
                      /\ expenses'[c.eid].category_id \in 1..Len(categories')
                      /\ SqlLower(categories'[expenses'[c.eid].category_id])
                           = PyLower(PyTitle(PyStrip(c.category_name.s)))
            /\ last'.op = "soft_delete" =>
                 /\ DOMAIN expenses' = DOMAIN expenses
                 /\ expenses'[c.eid].deleted = TRUE]_vars

\* an update whose audit append failed: the row holds the amount of the
\* call and the log has no record of the update
C7_Witness ==
  /\ last.op = "update" /\ last.call.fault = "audit" /\ last.result = "ok"
  /\ last.call.amount.k = "num"
  /\ expenses[last.id].amount = last.call.amount.milli
  /\ \A k \in 1..Len(history) : history[k].action # "update"

\* C8: an update, soft delete or hard delete of an id that is not in the
\* ledger is rejected as not found and changes no transaction, category,
\* budget or audit record, whatever its other arguments
C8_NotFoundLeavesStore ==
  [][(/\ CallStep
      /\ last'.op \in {"update", "soft_delete", "hard_delete"}
      /\ last'.call.eid \notin DOMAIN expenses)
     => (last'.result = "notfound" /\ StoreUnchanged)]_vars

\* an update of an id that is not in a ledger with rows, naming a category
\* that does not exist, was rejected as not found
C8_Witness ==
  /\ last.op = "update" /\ last.result = "notfound"
  /\ DOMAIN expenses # {}
  /\ last.call.eid \notin DOMAIN expenses
  /\ NewName(categories, last.call.category_name)

\* the sum of the amounts of the rows ids, in thousandths
RECURSIVE SumMilli(_)
SumMilli(ids) ==
  IF ids = {} THEN 0
  ELSE LET i == MaxOf(ids) IN SumMilli(ids \ {i}) + expenses[i].amount

\* C9: the signal of a create is exceeded when the month's total T of the
\* category reaches its budget B, approaching when 0.8 * B <= T < B, and
\* ok otherwise; a transaction without a category, or of a category without
\* a budget, gets no signal
C9_SignalFollowsThresholds ==
  (last.op = "create" /\ last.result = "ok")
  => LET e    == expenses[last.id]
         mine == {j \in 1..Len(budgets) : budgets[j].category_id = e.category_id}
         T    == SumMilli(MonthRows(expenses, e.category_id, e.date))
         B    == budgets[MaxOf(mine)].amount
     IN  IF e.category_id = 0 \/ mine = {} THEN last.signal = "none"
         ELSE IF T >= B THEN last.signal = "exceeded"
         ELSE IF 10 * T >= 8 * B THEN last.signal = "approaching"
         ELSE last.signal = "ok"

\* the amounts of the rows of the ledger, in id order
Created == [i \in 1..Cardinality(DOMAIN expenses) |-> expenses[i].amount]

\* C10 as stated: with a Food budget of 400, after creations of 100, 150
\* and 200 in Food this month the third creation reports approaching, and a
\* further 100 reports exceeded
C10_ThirdCreationApproaching ==
  /\ (last.op = "create" /\ Created = <<100000, 150000, 200000>>)
       => last.signal = "approaching"
  /\ (last.op = "create" /\ Created = <<100000, 150000, 200000, 100000>>)
       => last.signal = "exceeded"

\* C10 amended: with a Food budget of 400, after creations of 100 and 150
\* the second creation reports ok (250 is under 320); after 200 more the
\* third creation reports exceeded (450 >= 400), and a further 100 reports
\* exceeded again
C10_ThirdCreationExceeded ==
  /\ (last.op = "create" /\ Created = <<100000, 150000>>)
       => last.signal = "ok"
  /\ (last.op = "create" /\ Created = <<100000, 150000, 200000>>)
       => last.signal = "exceeded"
  /\ (last.op = "create" /\ Created = <<100000, 150000, 200000, 100000>>)
       => last.signal = "exceeded"

\* the four creations were made, all in Food in the month of the budget
C10_Witness ==
  /\ last.op = "create" /\ last.result = "ok"
  /\ Created = <<100000, 150000, 200000, 100000>>
  /\ MonthRows(expenses, 1, today) = 1..4
  /\ last.signal = "exceeded"

\* C11: an update of a row of the ledger that is given no field, or
\* nothing but a date text that does not parse, reports that nothing
\* changed, and leaves the row, the rest of the store and the audit log as
\* they were
C11_NoOpUpdateChangesNothing ==
  [][(/\ CallStep
      /\ last'.op = "update"
      /\ last'.call.eid \in DOMAIN expenses
      /\ last'.call.amount.k = "none"
      /\ last'.call.note.k = "none"
      /\ last'.call.category_name.k = "none"
      /\ last'.call.currency.k = "none"
      /\ (last'.call.date_str.k = "none" \/ ~valid_date_str(last'.call.date_str)))
     => (last'.result = "noop" /\ StoreUnchanged)]_vars

\* an update of a row of the ledger with nothing but a date that does not
\* exist was made, and reported no change
C11_Witness ==
  /\ last.op = "update" /\ last.result = "noop"
  /\ last.call.eid \in DOMAIN expenses
  /\ last.call.date_str.k = "ymd" /\ ~valid_date_str(last.call.date_str)
  /\ history # <<>>

\* two names differ in nothing but letter case and surrounding whitespace
SameName(a, b) == PyLower(PyStrip(a)) = PyLower(PyStrip(b))

\* the call gets as far as resolving the category it names
Resolves(op, c) ==
  /\ c.fault = "none" /\ Truthy(c.category_name)
  /\ \/ op = "create" /\ ValidAmount(c.amount)
     \/ op = "update" /\ c.eid \in DOMAIN expenses /\ c.amount.k # "junk"
     \/ op = "set_budget" /\ c.amount.k = "num"
     \/ op = "get_or_create"

\* C12: a call that names a category in a spelling that differs from the
\* name of a category of the registry in nothing but case and surrounding
\* whitespace resolves to that category and adds none; and no two
\* categories of the registry have names that are equal ignoring case
C12_NamesResolveToOneCategory ==
  [][/\ (CallStep /\ Resolves(last'.op, last'.call))
        => \A k \in 1..Len(categories) :
             SameName(categories[k], last'.call.category_name.s)
             => /\ last'.result = "ok"
                /\ categories' = categories
                /\ k = IF last'.op = "create" THEN expenses'[last'.id].category_id
                       ELSE IF last'.op = "update"
                       THEN expenses'[last'.call.eid].category_id
                       ELSE last'.id
     /\ \A i, j \in 1..Len(categories') :
          SameName(categories'[i], categories'[j]) => i = j]_vars

\* the concatenation of a sequence of sequences
RECURSIVE Flatten(_)
Flatten(ss) == IF ss = <<>> THEN <<>> ELSE Head(ss) \o Flatten(Tail(ss))

\* C13: for every filter and every per_page, search reports
\* pages = ceil(total / per_page), or 1 when per_page is 0, and the items
\* of pages 1..pages, one after the other, hold every row of the filtered
\* result exactly once
C13_SearchPagesCoverResult ==
  \A f \in SearchFilters, per_page \in PerPageArgs :
    \A p \in SearchOrderings(expenses, categories, f) :
      LET first == search_expenses(expenses, categories, f, 1, per_page, p)
          all   == Flatten([page \in 1..first.pages |->
                             search_expenses(expenses, categories, f, page,
                                             per_page, p).items])
      IN  /\ first.pages = IF per_page = 0 THEN 1
                           ELSE (first.total + per_page - 1) \div per_page
          /\ Len(all) = first.total
          /\ {all[i].id : i \in 1..Len(all)} = SearchIds(expenses, categories, f)

\* C14: for every number of days n, the trend has exactly n entries; the
\* date of entry i is the day n - i days before today, so the dates are the
\* n consecutive days that end today, in ascending order; and its total is
\* the sum of the amounts of the rows of that day that are not deleted, 0
\* when there is none
C14_TrendCoversEveryDay ==
  \A n \in 0..MaxDays :
    LET t == spending_trend(expenses, n, today)
    IN  /\ Len(t) = n
        /\ \A i \in 1..n :
             LET day == today - n + i
             IN  /\ Ord(t[i][1][1], t[i][1][2], t[i][1][3]) = day
                 /\ t[i][2] = SumAmounts(expenses,
                                         {j \in DOMAIN expenses :
                                            /\ ~expenses[j].deleted
                                            /\ expenses[j].date = day})

\* the days of the trend run over the end of a month; one of them has a
\* live row, and another has nothing but a deleted row
C14_Witness ==
  /\ today > FirstDay
  /\ \E i, j \in DOMAIN expenses :
       /\ expenses[i].deleted /\ ~expenses[j].deleted
       /\ expenses[i].date \in (today - MaxDays + 1)..today
       /\ expenses[j].date \in (today - MaxDays + 1)..today
       /\ \A k \in DOMAIN expenses :
            expenses[k].date = expenses[i].date => expenses[k].deleted
  /\ \E i \in 1..MaxDays :
       spending_trend(expenses, MaxDays, today)[i][2] # DZero

\* C15: every amount in the ledger is a value rounded to 2 decimal places,
\* a whole number of hundredths
C15_AmountsRounded ==
  \A i \in DOMAIN expenses : expenses[i].amount % 10 = 0

\* the rows that are not deleted, of the category of row id, and dated in
\* the calendar month of row id
SameMonthRows(id) ==
  {i \in DOMAIN expenses :
     /\ ~expenses[i].deleted
     /\ expenses[i].category_id = expenses[id].category_id
     /\ isoformat(expenses[i].date)[1] = isoformat(expenses[id].date)[1]
     /\ isoformat(expenses[i].date)[2] = isoformat(expenses[id].date)[2]}

\* C16: the total a create weighs against the budget of its category is
\* the sum of the amounts of the rows that are not deleted, of its category
\* and of the calendar month of its date, the created row among them; the
\* budget is the one set last for the category
C16_BudgetTotalIsMonthOfCategory ==
  (last.op = "create" /\ last.result = "ok" /\ expenses[last.id].category_id # 0)
  => LET e    == expenses[last.id]
         mine == {j \in 1..Len(budgets) : budgets[j].category_id = e.category_id}
     IN  /\ last.id \in SameMonthRows(last.id)
         /\ MonthRows(expenses, e.category_id, e.date) = SameMonthRows(last.id)
         /\ Cardinality(mine) <= 1
         /\ last.signal = IF mine = {} THEN "none"
                          ELSE Threshold(SumAmounts(expenses, SameMonthRows(last.id)),
                                         budgets[MaxOf(mine)].amount)

\* a create in Food, which has a budget, was made in a month that has a
\* deleted row of Food, and the deleted row is what keeps the signal from
\* being another
C16_Witness ==
  /\ last.op = "create" /\ last.result = "ok"
  /\ \E j \in 1..Len(budgets) :
       budgets[j].category_id = expenses[last.id].category_id
  /\ MonthRows_counts_deleted(expenses, expenses[last.id].category_id,
                              expenses[last.id].date) # SameMonthRows(last.id)
  /\ last.signal = "ok"
  /\ Threshold(SumAmounts(expenses,
                          MonthRows_counts_deleted(expenses, 1, expenses[last.id].date)),
               budgets[1].amount) = "exceeded"

\* C17: every budget in the store has an amount > 0
C17_BudgetPositive ==
  \A j \in 1..Len(budgets) : DCmp(F(budgets[j].amount), DZero) > 0

\* C18: a row that is flagged deleted stays in the ledger, flagged, under
\* every create, update and soft delete of any id; a hard delete of its id
\* that does not fail on the store succeeds and removes it
C18_DeletedFlagMonotonic ==
  [][CallStep
     => \A i \in DOMAIN expenses :
          expenses[i].deleted
          => IF last'.op = "hard_delete" /\ last'.call.eid = i
                /\ last'.call.fault = "none"
             THEN last'.result = "ok" /\ i \notin DOMAIN expenses'
             ELSE i \in DOMAIN expenses' /\ expenses'[i].deleted]_vars

\* a row was soft-deleted and then hard-deleted: the log has the record of
\* its soft delete, and the row is gone
C18_Witness ==
  /\ last.op = "hard_delete" /\ last.result = "ok"
  /\ last.id \notin DOMAIN expenses
  /\ \E k \in 1..Len(history) :
       /\ history[k].expense_id = last.id
       /\ history[k].action = "delete"
       /\ history[k].snapshot.deleted

=============================================================================
